---- MODULE Spec2Model ----
(***************************************************************************)
(* novaconf.util.classinfo: DataClassInfo, an inspector wrapping one       *)
(* dataclass and answering queries about its fields.                       *)
(*                                                                         *)
(* The inspector instance is modelled by its attribute dictionary `self`:  *)
(* a function whose domain always holds "_cls" and "_fieldmap" and holds   *)
(* "fields" exactly while functools.cached_property has stored the field   *)
(* list in the instance __dict__.  Every method is an operator from the    *)
(* instance (and the call's arguments) to an outcome record                *)
(*    [self, ret, err, invoked]                                            *)
(* giving the instance after the call, the value returned, the exception   *)
(* raised ("none" when the call returns) and the default factories the     *)
(* call invoked, in order.                                                 *)
(***************************************************************************)
EXTENDS Integers, Sequences, FiniteSets, TLC

VARIABLES self, last, stale

vars == <<self, last, stale>>

----------------------------------------------------------------------------
(* Bounds and the universe of inputs *)

\* longest field list of a class the inspector is constructed on or
\* reassigned to in Spec
MaxFields == 2

\* longest field list of a class queried in SpecQueries
MaxLen == 3

\* names the classes of Spec give their fields, in any order
FieldNames == {"x", "y", "z"}

\* the classes of SpecQueries name their fields by position
NameOrder == <<"x", "y", "z", "u", "v">>

\* names a caller may ask for ("w" is a field of no class)
QueryNames == {NameOrder[i] : i \in DOMAIN NameOrder} \cup {"w"}

\* dataclasses.MISSING, the unique "no default" marker
MISSING == "MISSING"

\* Python's None
None == [py |-> "None"]

\* an object a caller passes as get_field's default
Fallback == [py |-> "fallback"]

\* explicit default values a field may carry
DefaultValues == {"d0"}

\* default factories a field may carry
Factories == {"list"}

\* the value a default factory produces when called with no arguments
Call(factory) == "made_by_" \o factory

\* the metadata mapping attached to the field named n
MetadataOf(n) == [doc |-> n]

\* the (default, default_factory) pairs a field may carry; dataclasses.field
\* refuses both at once, a hand-built Field may still hold both
Kinds == [default : {MISSING} \cup DefaultValues,
          default_factory : {MISSING} \cup Factories]

\* the pairs the fields of Spec's classes carry: no default, or an explicit one
PlainKinds == {k \in Kinds : k.default_factory = MISSING}

\* a dataclasses.Field descriptor
MkField(n, k) ==
    [name |-> n, default |-> k.default,
     default_factory |-> k.default_factory, metadata |-> MetadataOf(n)]

\* a dataclass declaring the fields fs
MkClass(fs) == [__name__ |-> "Rec", __dataclass_fields__ |-> fs]

\* sequences of pairwise distinct field names, at most MaxFields long
NameSeqs ==
    {ns \in UNION {[1..n -> FieldNames] : n \in 0..MaxFields} :
        \A i, j \in DOMAIN ns : i # j => ns[i] # ns[j]}

\* the dataclasses of Spec: every order of every choice of field names
DataClasses ==
    UNION {{MkClass([i \in DOMAIN ns |-> MkField(ns[i], ks[i])]) :
                ks \in [DOMAIN ns -> PlainKinds]} : ns \in NameSeqs}

\* the dataclasses of SpecQueries: every interleaving of fields with no
\* default, an explicit default, a default factory, or both
QueryClasses ==
    UNION {{MkClass([i \in 1..n |-> MkField(NameOrder[i], ks[i])]) :
                ks \in [1..n -> Kinds]} : n \in 0..MaxLen}

\* a class that is no dataclass
PlainClass == [__name__ |-> "int"]

\* everything a caller of Spec may hand over as `cls`
Classes == DataClasses \cup {PlainClass}

----------------------------------------------------------------------------
(* Outcomes *)

\* what is recorded of a call: the operation, its arguments, whether the
\* field list was cached when the call began, and the call's outcome r
Observed(op, arg, cached, r) ==
    [op |-> op, arg |-> arg, cached |-> cached,
     ret |-> r.ret, err |-> r.err, invoked |-> r.invoked]

Return(s, v) == [self |-> s, ret |-> v, err |-> "none", invoked |-> <<>>]

Raise(s, e) == [self |-> s, ret |-> None, err |-> e, invoked |-> <<>>]

\* a Python dict
Dict(items) == [py |-> "dict", items |-> items]

\* `del self.fields` with the field list stored in the instance dictionary
DelFields(s) == [_cls |-> s._cls, _fieldmap |-> s._fieldmap]

\* self.<a> = v; the one attribute ever added after __init__ is "fields",
\* stored by cached_property
SetAttr(s, a, v) ==
    IF a \in DOMAIN s
    THEN [s EXCEPT ![a] = v]
    ELSE [_cls |-> s._cls, _fieldmap |-> s._fieldmap, fields |-> v]

Reverse(seq) == [i \in DOMAIN seq |-> seq[Len(seq) + 1 - i]]

----------------------------------------------------------------------------
(* Module-level functions *)

\* dataclasses.is_dataclass
is_dataclass(c) == "__dataclass_fields__" \in DOMAIN c

\* `type(o) is MISSING` compares a type with the MISSING instance: never true
is_missing(o) == o = MISSING \/ FALSE

\* field_has_default looking at the default value alone
field_has_default_value_only(field) == ~is_missing(field.default)

field_has_default(field) ==
    ~is_missing(field.default) \/ ~is_missing(field.default_factory)

\* field_default_value trying the factory before the explicit default
field_default_value_factory_first(field) ==
    IF ~is_missing(field.default_factory)
    THEN [ret |-> Call(field.default_factory),
          invoked |-> <<field.default_factory>>]
    ELSE IF ~is_missing(field.default)
    THEN [ret |-> field.default, invoked |-> <<>>]
    ELSE [ret |-> MISSING, invoked |-> <<>>]

field_default_value(field) ==
    IF ~is_missing(field.default)
    THEN [ret |-> field.default, invoked |-> <<>>]
    ELSE IF ~is_missing(field.default_factory)
    THEN [ret |-> Call(field.default_factory),
          invoked |-> <<field.default_factory>>]
    ELSE [ret |-> MISSING, invoked |-> <<>>]

----------------------------------------------------------------------------
(* DataClassInfo *)

__init__(c) ==
    IF ~is_dataclass(c)
    THEN Raise(<<>>, "TypeError")
    ELSE Return([_cls |-> c, _fieldmap |-> None], None)

cls_getter(s) == Return(s, s._cls)

\* the setter without `del self.fields`
cls_setter_keeps_cache(s, c) ==
    Return(SetAttr(SetAttr(s, "_cls", c), "_fieldmap", None), None)

\* _cls is replaced first; `del self.fields` then raises AttributeError when
\* the cached_property has stored nothing, leaving _fieldmap as it was
cls_setter(s, c) ==
    LET s1 == SetAttr(s, "_cls", c)
    IN  IF "fields" \notin DOMAIN s1
        THEN Raise(s1, "AttributeError")
        ELSE Return(SetAttr(DelFields(s1), "_fieldmap", None), None)

name(s) == Return(s, s._cls.__name__)

\* cached_property: the stored list when there is one, else the body runs
\* and its result is stored; dataclasses.fields raises TypeError on a class
\* that is no dataclass
fields(s) ==
    IF "fields" \in DOMAIN s
    THEN Return(s, s.fields)
    ELSE IF ~is_dataclass(s._cls)
    THEN Raise(s, "TypeError")
    ELSE LET fs == s._cls.__dataclass_fields__
             fm == [n \in {fs[i].name : i \in DOMAIN fs} |->
                       fs[CHOOSE i \in DOMAIN fs :
                            /\ fs[i].name = n
                            /\ \A j \in DOMAIN fs : fs[j].name = n => j <= i]]
             s1 == SetAttr(s, "_fieldmap", Dict(fm))
         IN  Return(SetAttr(s1, "fields", fs), fs)

\* fieldmap without the read of fields that fills the map
fieldmap_unfilled(s) == Return(s, s._fieldmap)

fieldmap(s) ==
    IF "fields" \notin DOMAIN s
    THEN LET r == fields(s)
         IN  IF r.err # "none" THEN r ELSE Return(r.self, r.self._fieldmap)
    ELSE Return(s, s._fieldmap)

RECURSIVE required_loop_no_break(_, _, _)
\* the loop of required_fields skipping fields with a default, not stopping
required_loop_no_break(fs, i, acc) ==
    IF i > Len(fs) THEN acc
    ELSE IF ~field_has_default(fs[i])
    THEN required_loop_no_break(fs, i + 1, Append(acc, fs[i]))
    ELSE required_loop_no_break(fs, i + 1, acc)

RECURSIVE required_loop(_, _, _)
\* the for loop of required_fields from position i on
required_loop(fs, i, acc) ==
    IF i > Len(fs) THEN acc
    ELSE IF ~field_has_default(fs[i])
    THEN required_loop(fs, i + 1, Append(acc, fs[i]))
    ELSE acc

required_fields(s) ==
    LET r == fields(s)
    IN  IF r.err # "none" THEN r
        ELSE Return(r.self, required_loop(r.ret, 1, <<>>))

RECURSIVE optional_loop_no_break(_, _, _)
\* the loop of optional_fields skipping fields without a default, not stopping
optional_loop_no_break(rs, i, acc) ==
    IF i > Len(rs) THEN acc
    ELSE IF field_has_default(rs[i])
    THEN optional_loop_no_break(rs, i + 1, Append(acc, rs[i]))
    ELSE optional_loop_no_break(rs, i + 1, acc)

RECURSIVE optional_loop(_, _, _)
\* the for loop of optional_fields over the reversed list rs
optional_loop(rs, i, acc) ==
    IF i > Len(rs) THEN acc
    ELSE IF field_has_default(rs[i])
    THEN optional_loop(rs, i + 1, Append(acc, rs[i]))
    ELSE acc

\* optional_fields without the final [::-1]
optional_fields_unreversed(s) ==
    LET r == fields(s)
    IN  IF r.err # "none" THEN r
        ELSE Return(r.self, optional_loop(Reverse(r.ret), 1, <<>>))

optional_fields(s) ==
    LET r == fields(s)
    IN  IF r.err # "none" THEN r
        ELSE Return(r.self, Reverse(optional_loop(Reverse(r.ret), 1, <<>>)))

\* self.fieldmap.get(field, default)
get_field(s, field, default) ==
    LET r == fieldmap(s)
    IN  IF r.err # "none" THEN r
        ELSE IF r.ret = None THEN Raise(r.self, "AttributeError")
        ELSE IF field \in DOMAIN r.ret.items
        THEN Return(r.self, r.ret.items[field])
        ELSE Return(r.self, default)

\* default_value without the `fld is None` check
default_value_unchecked(s, field) ==
    LET r == get_field(s, field, None)
    IN  IF r.err # "none" THEN r
        ELSE IF r.ret = None THEN Return(r.self, MISSING)
        ELSE LET d == field_default_value(r.ret)
             IN  [self |-> r.self, ret |-> d.ret, err |-> "none",
                  invoked |-> d.invoked]

default_value(s, field) ==
    LET r == get_field(s, field, None)
    IN  IF r.err # "none" THEN r
        ELSE IF r.ret = None THEN Raise(name(r.self).self, "KeyError")
        ELSE LET d == field_default_value(r.ret)
             IN  [self |-> r.self, ret |-> d.ret, err |-> "none",
                  invoked |-> d.invoked]

get_metadata(s, field) ==
    LET r == get_field(s, field, None)
    IN  IF r.err # "none" THEN r
        ELSE IF r.ret = None THEN Raise(name(r.self).self, "KeyError")
        ELSE Return(r.self, r.ret.metadata)

has_default(s, field) ==
    LET r == get_field(s, field, None)
    IN  IF r.err # "none" THEN r
        ELSE IF r.ret = None THEN Raise(name(r.self).self, "KeyError")
        ELSE Return(r.self, field_has_default(r.ret))

RECURSIVE split_loop(_, _, _, _)
\* the for loop of split_required_optional_fields from position i on
split_loop(fs, i, req, opt) ==
    IF i > Len(fs) THEN <<req, opt>>
    ELSE IF field_has_default(fs[i])
    THEN split_loop(fs, i + 1, req, Append(opt, fs[i]))
    ELSE split_loop(fs, i + 1, Append(req, fs[i]), opt)

split_required_optional_fields(s) ==
    LET r == fields(s)
    IN  IF r.err # "none" THEN r
        ELSE Return(r.self, split_loop(r.ret, 1, <<>>, <<>>))

----------------------------------------------------------------------------
(* The state machine: one action per call a client can make *)

\* what `last` records of a call made in the current state
Observe(op, arg, r) == Observed(op, arg, "fields" \in DOMAIN self, r)

\* the state after a call with outcome r
Step(op, arg, r) ==
    /\ self' = r.self
    /\ last' = Observe(op, arg, r)

\* DataClassInfo(c) for a c of universe U that passes the constructor's check
Construct(U) ==
    \E c \in U :
        /\ __init__(c).err = "none"
        /\ self = __init__(c).self
        /\ last = Observed("__init__", c, FALSE, __init__(c))
        /\ stale = FALSE

Init == Construct(Classes)

InitQueries == Construct(QueryClasses)

\* info.cls = c; stale records whether this assignment found a cached field
\* list that differs from the fields of c
SetCls ==
    \E c \in Classes :
        /\ Step("cls.setter", c, cls_setter(self, c))
        /\ stale' = /\ "fields" \in DOMAIN self
                    /\ is_dataclass(c)
                    /\ self.fields # c.__dataclass_fields__

GetCls ==
    /\ Step("cls", None, cls_getter(self))
    /\ UNCHANGED stale

Name ==
    /\ Step("name", None, name(self))
    /\ UNCHANGED stale

Fields ==
    /\ Step("fields", None, fields(self))
    /\ UNCHANGED stale

Fieldmap ==
    /\ Step("fieldmap", None, fieldmap(self))
    /\ UNCHANGED stale

RequiredFields ==
    /\ Step("required_fields", None, required_fields(self))
    /\ UNCHANGED stale

OptionalFields ==
    /\ Step("optional_fields", None, optional_fields(self))
    /\ UNCHANGED stale

GetField ==
    \E n \in QueryNames, d \in {None, Fallback} :
        /\ Step("get_field", [field |-> n, default |-> d],
                get_field(self, n, d))
        /\ UNCHANGED stale

DefaultValue ==
    \E n \in QueryNames :
        /\ Step("default_value", [field |-> n], default_value(self, n))
        /\ UNCHANGED stale

GetMetadata ==
    \E n \in QueryNames :
        /\ Step("get_metadata", [field |-> n], get_metadata(self, n))
        /\ UNCHANGED stale

HasDefault ==
    \E n \in QueryNames :
        /\ Step("has_default", [field |-> n], has_default(self, n))
        /\ UNCHANGED stale

Split ==
    /\ Step("split_required_optional_fields", None,
            split_required_optional_fields(self))
    /\ UNCHANGED stale

\* the calls that read the inspector
NextQueries ==
    \/ GetCls
    \/ Name
    \/ Fields
    \/ Fieldmap
    \/ RequiredFields
    \/ OptionalFields
    \/ GetField
    \/ DefaultValue
    \/ GetMetadata
    \/ HasDefault
    \/ Split

Next ==
    \/ SetCls
    \/ NextQueries

\* an inspector over its whole life: construction, reassignments, queries
Spec == Init /\ [][Next]_vars

\* the queries as functions of the wrapped class's field list
SpecQueries == InitQueries /\ [][NextQueries]_vars

----------------------------------------------------------------------------
(* Vocabulary of the properties *)

\* the fields a dataclass declares, in declaration order
Declared(c) == c.__dataclass_fields__

\* the names of the fields in fs
NamesOf(fs) == {fs[i].name : i \in DOMAIN fs}

\* the elements of a sequence
Range(seq) == {seq[i] : i \in DOMAIN seq}

\* the descriptor named n among fs
Descriptor(fs, n) == fs[CHOOSE i \in DOMAIN fs : fs[i].name = n]

\* a field carries a default value or a default factory
HasDflt(f) == f.default # MISSING \/ f.default_factory # MISSING

\* the fields of fs that carry a default, in order
WithDflt(fs) == SelectSeq(fs, HasDflt)

\* the fields of fs that carry none, in order
NoDflt(f) == ~HasDflt(f)

WithoutDflt(fs) == SelectSeq(fs, NoDflt)

\* position of the first field with a default, Len(fs) + 1 when there is none
FirstDflt(fs) ==
    IF \E i \in DOMAIN fs : HasDflt(fs[i])
    THEN CHOOSE i \in DOMAIN fs :
            HasDflt(fs[i]) /\ \A j \in 1..(i - 1) : ~HasDflt(fs[j])
    ELSE Len(fs) + 1

\* position of the last field without a default, 0 when there is none
LastNoDflt(fs) ==
    IF \E i \in DOMAIN fs : ~HasDflt(fs[i])
    THEN CHOOSE i \in DOMAIN fs :
            ~HasDflt(fs[i]) /\ \A j \in (i + 1)..Len(fs) : HasDflt(fs[j])
    ELSE 0

\* no field without a default is declared after a field with a default
RequiredFirst(fs) ==
    \A i, j \in DOMAIN fs : (i < j /\ HasDflt(fs[i])) => HasDflt(fs[j])

IsPrefix(a, b) == Len(a) <= Len(b) /\ a = SubSeq(b, 1, Len(a))

IsSuffix(a, b) ==
    Len(a) <= Len(b) /\ a = SubSeq(b, Len(b) - Len(a) + 1, Len(b))

\* how often e occurs in seq
Occurrences(seq, e) == Cardinality({i \in DOMAIN seq : seq[i] = e})

----------------------------------------------------------------------------
(* Properties *)

\* C1: whatever constructions, reassignments and queries came before, a read
\* of fields on a wrapped dataclass returns the fields that class declares,
\* in declaration order and as many; a cached list is never that of a class
\* wrapped earlier.
C1_FieldsOfWrappedClass ==
    /\ (last.op = "fields" /\ is_dataclass(self._cls)) =>
          /\ last.err = "none"
          /\ last.ret = Declared(self._cls)
          /\ Len(last.ret) = Len(Declared(self._cls))
    /\ ("fields" \in DOMAIN self /\ is_dataclass(self._cls)) =>
          self.fields = Declared(self._cls)

\* C1 witness: the latest assignment replaced a class whose differing field
\* list was cached, and fields now returns the two fields of the new class.
C1_Witness ==
    /\ stale
    /\ last.op = "fields"
    /\ last.err = "none"
    /\ Len(last.ret) = 2
    /\ last.ret = Declared(self._cls)

\* C2: on a wrapped dataclass a read of fieldmap returns a dict, never None,
\* whose keys are the field names of the wrapped class and whose value at
\* each name is the descriptor of that name in fields, whether or not fields
\* was read before.
C2_FieldmapPopulated ==
    (last.op = "fieldmap" /\ is_dataclass(self._cls)) =>
        /\ last.err = "none"
        /\ last.ret # None
        /\ DOMAIN last.ret.items = NamesOf(Declared(self._cls))
        /\ "fields" \in DOMAIN self
        /\ \A i \in DOMAIN self.fields :
              last.ret.items[self.fields[i].name] = self.fields[i]

\* C2 witness: fieldmap read right after a reassignment that dropped the
\* cache, before any read of fields, returns the two entries of the new class.
C2_Witness ==
    /\ stale
    /\ last.op = "fieldmap"
    /\ ~last.cached
    /\ last.err = "none"
    /\ Cardinality(DOMAIN last.ret.items) = 2

\* C3: get_field never raises, also after the setter took a class it did
\* not validate: it returns the descriptor of a name the wrapped class has
\* and the caller's default for any other name.
C3_GetFieldNeverFails ==
    last.op = "get_field" =>
        /\ last.err = "none"
        /\ last.ret =
              IF /\ is_dataclass(self._cls)
                 /\ last.arg.field \in NamesOf(Declared(self._cls))
              THEN Descriptor(Declared(self._cls), last.arg.field)
              ELSE last.arg.default

\* C4: on a wrapped dataclass, has_default, default_value and get_metadata
\* called with a name that is no field of it raise KeyError and leave the
\* wrapped class as it was.
C4_UnknownFieldKeyError ==
    [][(/\ last'.op \in {"has_default", "default_value", "get_metadata"}
        /\ is_dataclass(self._cls)
        /\ last'.arg.field \notin NamesOf(Declared(self._cls)))
       => (last'.err = "KeyError" /\ self'._cls = self._cls)]_vars

\* C4 witness: default_value asked for a name the wrapped two-field class
\* does not have ended in KeyError.
C4_Witness ==
    /\ last.op = "default_value"
    /\ is_dataclass(self._cls)
    /\ Len(Declared(self._cls)) = 2
    /\ last.arg.field \notin NamesOf(Declared(self._cls))
    /\ last.err = "KeyError"

\* C5: split_required_optional_fields partitions fields: the first result
\* is exactly the fields without a default, the second exactly those with
\* one, each in the order of fields, and every field occurs once in all.
C5_SplitPartitions ==
    last.op = "split_required_optional_fields" =>
        LET F == Declared(self._cls)
        IN  /\ last.err = "none"
            /\ last.ret[1] = WithoutDflt(F)
            /\ last.ret[2] = WithDflt(F)
            /\ \A i \in DOMAIN F :
                  Occurrences(last.ret[1], F[i])
                     + Occurrences(last.ret[2], F[i]) = 1
            /\ Len(last.ret[1]) + Len(last.ret[2]) = Len(F)

\* C5 witness: a split of a class that declares a field without a default
\* after a field with one, both results non-empty.
C5_Witness ==
    /\ last.op = "split_required_optional_fields"
    /\ ~RequiredFirst(Declared(self._cls))
    /\ Len(last.ret[1]) = 2
    /\ Len(last.ret[2]) = 1

C8_DefaultValue ==
    (/\ last.op = "default_value"
     /\ last.arg.field \in NamesOf(Declared(self._cls))) =>
        LET f == Descriptor(Declared(self._cls), last.arg.field)
        IN  /\ last.err = "none"
            /\ f.default # MISSING =>
                  (last.ret = f.default /\ last.invoked = <<>>)
            /\ (f.default = MISSING /\ f.default_factory # MISSING) =>
                  /\ last.ret = Call(f.default_factory)
                  /\ last.invoked = <<f.default_factory>>
            /\ (f.default = MISSING /\ f.default_factory = MISSING) =>
                  (last.ret = MISSING /\ last.invoked = <<>>)

\* C8 witness: default_value of a field carrying both a default and a
\* default factory returned the default and called nothing.
C8_Witness ==
    /\ last.op = "default_value"
    /\ last.arg.field \in NamesOf(Declared(self._cls))
    /\ LET f == Descriptor(Declared(self._cls), last.arg.field)
       IN  /\ f.default # MISSING
           /\ f.default_factory # MISSING
           /\ last.ret = f.default
           /\ last.invoked = <<>>

\* C9: assigning cls raises nothing, whether or not the field list is
\* cached; afterwards cls is the assigned class and the cached list and the
\* name map are unset.
C9_SetterCompletes ==
    last.op = "cls.setter" =>
        /\ last.err = "none"
        /\ self._cls = last.arg
        /\ "fields" \notin DOMAIN self
        /\ self._fieldmap = None

====
